---- MODULE Spec2Model ----
(***************************************************************************)
(* Montana Counties License Plate Lookup (src/Challenge2.py).              *)
(*                                                                         *)
(* Strings are sequences of one-character strings, so that lower(),        *)
(* title(), strip(), split() and the formatting of a prefix are computed   *)
(* character by character as Python computes them.  The directory is a     *)
(* Python dict: an insertion-ordered sequence of entries with unique keys. *)
(* The user-store file is the sequence of its characters.  Characters are  *)
(* the printable ASCII characters and "\t", "\n", "\r", "\f".              *)
(***************************************************************************)
EXTENDS Integers, Sequences, FiniteSets, TLC

VARIABLES
    csv_rows,       \* rows of MontanaCounties.csv as csv.DictReader yields them
    file_exists,    \* whether NewCities.txt exists
    file,           \* the characters of NewCities.txt
    cities,         \* the directory: sequence of [key, county, prefix]
    pc,             \* position of main / unknown_city
    city_name,      \* main's city_name, passed to unknown_city
    county_name,    \* unknown_city's county_name
    prefix_to_use,  \* unknown_city's prefix_to_use
    last_input,     \* the line the last input() returned
    out,            \* the last message printed
    error,          \* the exception that ended the program, "" if none
    flow_start,     \* observation: directory and file when unknown_city was entered
    adds,           \* observation: number of entries committed in this session
    added           \* observation: the entries confirmed in this session, as confirmed

vars == <<csv_rows, file_exists, file, cities, pc, city_name,
          county_name, prefix_to_use, last_input, out, error, flow_start, adds, added>>

-----------------------------------------------------------------------------
(* Characters and Python's str methods                                     *)

UpperLetters == <<"A","B","C","D","E","F","G","H","I","J","K","L","M",
                  "N","O","P","Q","R","S","T","U","V","W","X","Y","Z">>

LowerLetters == <<"a","b","c","d","e","f","g","h","i","j","k","l","m",
                  "n","o","p","q","r","s","t","u","v","w","x","y","z">>

Digits == <<"0","1","2","3","4","5","6","7","8","9">>

\* the characters of the model for which str.isspace() holds
Whitespace == {" ", "\t", "\n", "\r", "\f"}

IndexIn(c, seq) ==
    IF \E i \in 1..Len(seq) : seq[i] = c
    THEN CHOOSE i \in 1..Len(seq) : seq[i] = c
    ELSE 0

IsUpperChar(c) == IndexIn(c, UpperLetters) > 0

IsLowerChar(c) == IndexIn(c, LowerLetters) > 0

IsAlphaChar(c) == IsUpperChar(c) \/ IsLowerChar(c)

IsDigitChar(c) == IndexIn(c, Digits) > 0

LowerChar(c) == IF IsUpperChar(c) THEN LowerLetters[IndexIn(c, UpperLetters)] ELSE c

UpperChar(c) == IF IsLowerChar(c) THEN UpperLetters[IndexIn(c, LowerLetters)] ELSE c

\* str.lower()
Lower(s) == [i \in 1..Len(s) |-> LowerChar(s[i])]

\* str.title(): a cased character is uppercased when the character before it
\* is uncased (or there is none) and lowercased otherwise
Title(s) ==
    [i \in 1..Len(s) |->
        IF i > 1 /\ IsAlphaChar(s[i-1]) THEN LowerChar(s[i]) ELSE UpperChar(s[i])]

\* str.strip()
Strip(s) ==
    LET keep == {i \in 1..Len(s) : s[i] \notin Whitespace}
    IN  IF keep = {} THEN <<>>
        ELSE LET lo == CHOOSE i \in keep : \A j \in keep : i <= j
                 hi == CHOOSE i \in keep : \A j \in keep : i >= j
             IN  SubSeq(s, lo, hi)

\* str.replace(" ", "")
RemoveSpaces(s) == SelectSeq(s, LAMBDA c : c # " ")

\* str.isalpha()
IsAlpha(s) == Len(s) > 0 /\ \A i \in 1..Len(s) : IsAlphaChar(s[i])

\* str.split(sep) for a one-character separator: always at least one part
RECURSIVE Split(_, _)
Split(s, sep) ==
    IF \A i \in 1..Len(s) : s[i] # sep
    THEN <<s>>
    ELSE LET k == CHOOSE i \in 1..Len(s) :
                     s[i] = sep /\ \A j \in 1..(i-1) : s[j] # sep
         IN  <<SubSeq(s, 1, k-1)>> \o Split(SubSeq(s, k+1, Len(s)), sep)

\* open(path, "r") reads with universal newlines: "\r\n" and a lone "\r"
\* reach the program as "\n"
RECURSIVE TranslateNewlines(_)
TranslateNewlines(f) ==
    IF f = <<>> THEN <<>>
    ELSE IF f[1] # "\r" THEN <<f[1]>> \o TranslateNewlines(Tail(f))
    ELSE IF Len(f) > 1 /\ f[2] = "\n"
         THEN <<"\n">> \o TranslateNewlines(SubSeq(f, 3, Len(f)))
         ELSE <<"\n">> \o TranslateNewlines(Tail(f))

\* the lines a text file yields when iterated (line ends removed; the loader
\* strips each line, and a line that is empty after the last line end is not
\* yielded)
FileLines(f) ==
    LET parts == Split(TranslateNewlines(f), "\n")
    IN  IF parts[Len(parts)] = <<>> THEN SubSeq(parts, 1, Len(parts) - 1) ELSE parts

-----------------------------------------------------------------------------
(* Prefix values: Python stores an int (reference file) or a str            *)

\* a Python int, which has no upper limit: its sign and the decimal digits of
\* its magnitude, most significant first, <<0>> for zero
PyInt(neg, mag) == [neg |-> neg, mag |-> mag]

IntPrefix(n) == [t |-> "int", n |-> n, s |-> <<>>]

StrPrefix(s) == [t |-> "str", n |-> PyInt(FALSE, <<0>>), s |-> s]

Unknown == <<"u","n","k","n","o","w","n">>

\* the literals int() accepts: optional sign, then digits, single underscores
\* allowed between digits; surrounding whitespace is ignored
IntBody(s) ==
    LET t == Strip(s)
    IN  IF Len(t) > 0 /\ t[1] \in {"+", "-"} THEN Tail(t) ELSE t

\* sys.int_max_str_digits of CPython 3.11 and later: int() refuses a decimal
\* literal with more digits (leading zeros count, underscores do not)
MaxStrDigits == 4300

IsIntLiteral(s) ==
    LET b == IntBody(s)
    IN  /\ Len(b) > 0
        /\ Len(SelectSeq(b, IsDigitChar)) <= MaxStrDigits
        /\ \A i \in 1..Len(b) : IsDigitChar(b[i]) \/ b[i] = "_"
        /\ b[1] # "_" /\ b[Len(b)] # "_"
        /\ \A i \in 1..(Len(b)-1) : ~(b[i] = "_" /\ b[i+1] = "_")

\* the value of decimal digits: leading zeros do not count
RECURSIVE DigitsValue(_)
DigitsValue(d) ==
    IF Len(d) > 1 /\ d[1] = "0" THEN DigitsValue(Tail(d))
    ELSE [i \in 1..Len(d) |-> IndexIn(d[i], Digits) - 1]

\* int(s) for a literal int() accepts
ParseInt(s) ==
    LET t == Strip(s)
        v == DigitsValue(SelectSeq(IntBody(s), LAMBDA c : c # "_"))
    IN  PyInt(t[1] = "-" /\ v # <<0>>, v)

\* str(n) for an int n
IntToStr(n) ==
    (IF n.neg THEN <<"-">> ELSE <<>>) \o [i \in 1..Len(n.mag) |-> Digits[n.mag[i] + 1]]

\* f"{prefix}": how a stored prefix is formatted into a line or a message
FormatPrefix(p) == IF p.t = "int" THEN IntToStr(p.n) ELSE p.s

-----------------------------------------------------------------------------
(* The directory: a dict, i.e. unique keys in insertion order               *)

Entry(k, c, p) == [key |-> k, county |-> c, prefix |-> p]

\* key in cities
DictHas(d, k) == \E i \in 1..Len(d) : d[i].key = k

\* cities[key]
DictGet(d, k) == d[CHOOSE i \in 1..Len(d) : d[i].key = k]

\* cities[key] = (county, prefix): an existing key keeps its position
DictSet(d, k, c, p) ==
    IF DictHas(d, k)
    THEN [i \in 1..Len(d) |-> IF d[i].key = k THEN Entry(k, c, p) ELSE d[i]]
    ELSE Append(d, Entry(k, c, p))

-----------------------------------------------------------------------------
(* Loaders                                                                  *)

Row(city, county, prefix) == [city |-> city, county |-> county, prefix |-> prefix]

\* the body of the for loop of load_initial_cities, for one row
InitialRow(d, row) ==
    DictSet(d, Lower(Strip(row.city)), Strip(row.county), IntPrefix(ParseInt(row.prefix)))

RECURSIVE LoadRows(_, _, _)
LoadRows(rows, i, d) ==
    IF i > Len(rows) THEN [ok |-> TRUE, cities |-> d, error |-> ""]
    ELSE IF ~IsIntLiteral(rows[i].prefix)
         THEN [ok |-> FALSE, cities |-> <<>>, error |-> "ValueError"]
         ELSE LoadRows(rows, i + 1, InitialRow(d, rows[i]))

\* load_initial_cities(csv_file): the dict it returns, or the exception of
\* int() on a non-numeric prefix (no dict is returned then)
load_initial_cities(rows) == LoadRows(rows, 1, <<>>)

\* a merge that keeps the city as written in the file
UserLine_keeps_case(d, line) ==
    LET parts  == Split(line, ",")
        city   == Strip(parts[1])
        county == Strip(parts[2])
        prefix == IF Len(parts) > 2 THEN Strip(parts[3]) ELSE Unknown
    IN  DictSet(d, city, county, StrPrefix(prefix))

\* a merge that does not overwrite a key the directory already has
UserLine_keeps_existing(d, line) ==
    LET parts  == Split(line, ",")
        city   == Lower(Strip(parts[1]))
        county == Strip(parts[2])
        prefix == IF Len(parts) > 2 THEN Strip(parts[3]) ELSE Unknown
    IN  IF DictHas(d, city) THEN d ELSE DictSet(d, city, county, StrPrefix(prefix))

\* the body of the for loop of load_user_cities for one non-empty stripped line
\* with at least two fields
UserLine(d, line) ==
    LET parts  == Split(line, ",")
        city   == Lower(Strip(parts[1]))
        county == Strip(parts[2])
        prefix == IF Len(parts) > 2 THEN Strip(parts[3]) ELSE Unknown
    IN  DictSet(d, city, county, StrPrefix(prefix))

\* a loader that skips a line with fewer than two fields
RECURSIVE LoadLines_skips_malformed(_, _, _)
LoadLines_skips_malformed(lines, i, d) ==
    IF i > Len(lines) THEN [ok |-> TRUE, cities |-> d, error |-> ""]
    ELSE LET line == Strip(lines[i])
         IN  IF line = <<>> THEN LoadLines_skips_malformed(lines, i + 1, d)
             ELSE IF Len(Split(line, ",")) < 2
                  THEN LoadLines_skips_malformed(lines, i + 1, d)
                  ELSE LoadLines_skips_malformed(lines, i + 1, UserLine(d, line))

RECURSIVE LoadLines(_, _, _)
LoadLines(lines, i, d) ==
    IF i > Len(lines) THEN [ok |-> TRUE, cities |-> d, error |-> ""]
    ELSE LET line == Strip(lines[i])
         IN  IF line = <<>> THEN LoadLines(lines, i + 1, d)
             ELSE IF Len(Split(line, ",")) < 2
                  THEN [ok |-> FALSE, cities |-> d, error |-> "IndexError"]
                  ELSE LoadLines(lines, i + 1, UserLine(d, line))

\* load_user_cities(file_path, cities): the dict after the merge; open() raises
\* when the file does not exist, parts[1] raises on a line with one field
\* (the lines before it are merged already)
load_user_cities(exists, f, d) ==
    IF ~exists THEN [ok |-> FALSE, cities |-> d, error |-> "FileNotFoundError"]
    ELSE LoadLines(FileLines(f), 1, d)

\* the text save_new_city writes
SavedLine(city, county, prefix) ==
    city \o <<",">> \o county \o <<",">> \o FormatPrefix(prefix) \o <<"\n">>

\* save_new_city(city_name, county_name, prefix): the file after the append
save_new_city(f, city, county, prefix) == f \o SavedLine(city, county, prefix)

\* the file after a save that raised OSError: open() failed, or it succeeded
\* (creating the file if there was none) and the write stopped (full disk, size
\* limit) when `written` characters had reached the file
save_new_city_fails(f, city, county, prefix, written) ==
    f \o SubSeq(SavedLine(city, county, prefix), 1, written)

-----------------------------------------------------------------------------
(* validate_name, lookup_city and DETERMINE_PREFIX                          *)

\* a validator that does not set spaces aside
validate_name_keeps_spaces(name) ==
    IF name = <<>> THEN FALSE
    ELSE IF ~IsAlpha(name) THEN FALSE
    ELSE TRUE

\* validate_name(name): the value it returns
validate_name(name) ==
    IF name = <<>> THEN FALSE
    ELSE IF ~IsAlpha(RemoveSpaces(name)) THEN FALSE
    ELSE TRUE

\* the message validate_name prints, "" if none
validate_message(name) ==
    IF name = <<>> THEN "invalid_name"
    ELSE IF ~IsAlpha(RemoveSpaces(name)) THEN "letters_only"
    ELSE ""

\* a lookup that probes the name as typed
lookup_city_as_typed(name, d) == DictHas(d, name)

\* lookup_city(city_name, cities): the value it returns
lookup_city(name, d) == DictHas(d, Lower(name))

Message(kind, city, county, prefix) ==
    [kind |-> kind, city |-> city, county |-> county, prefix |-> prefix]

NoMessage == Message("", <<>>, <<>>, <<>>)

\* the line lookup_city prints on a hit
lookup_message(name, d) ==
    LET e == DictGet(d, Lower(name))
    IN  Message("hit", Title(name), e.county, FormatPrefix(e.prefix))

\* lines 156-161 of unknown_city: the prefix of the first entry, in the order
\* of cities.values(), whose county equals county_name ignoring case
RECURSIVE ScanPrefix(_, _, _)
ScanPrefix(d, i, county) ==
    IF i > Len(d) THEN StrPrefix(Unknown)
    ELSE IF Lower(d[i].county) = Lower(county) THEN d[i].prefix
    ELSE ScanPrefix(d, i + 1, county)

\* a scan that keeps the last match instead of stopping at the first
determine_prefix_last_match(d, county) ==
    LET m == {i \in 1..Len(d) : Lower(d[i].county) = Lower(county)}
    IN  IF m = {} THEN StrPrefix(Unknown)
        ELSE d[CHOOSE i \in m : \A j \in m : j <= i].prefix

determine_prefix(d, county) == ScanPrefix(d, 1, county)

-----------------------------------------------------------------------------
(* Bounds and the inputs of the model                                       *)

\* entries one session may commit
MaxAdds == 2

S_Lolo == <<"L","o","l","o">>
S_Missoula == <<"M","i","s","s","o","u","l","a">>
S_Butte == <<" ","B","U","T","T","E"," ">>
S_SilverBow == <<"S","i","l","v","e","r"," ","B","o","w">>
S_Ravalli == <<"R","a","v","a","l","l","i">>

\* MontanaCounties.csv: rows with columns city, county, prefix
RefFiles ==
    { <<>>,
      << Row(S_Lolo, S_Missoula, <<"4">>),
         Row(S_Butte, S_SilverBow, <<" ","0","1">>) >>,
      << Row(S_Lolo, S_Ravalli, <<"1","3">>),
         Row(Lower(S_Lolo), S_Missoula, <<"4">>),
         Row(<<"A","l","d","e","r">>, Lower(S_Missoula), <<"7">>) >>,
      << Row(S_Lolo, S_Missoula, <<"4">>),
         Row(S_Butte, S_SilverBow, <<"o","n","e">>) >> }

L_Darby == <<"d","a","r","b","y",",","R","a","v","a","l","l","i",",","1","3">>
L_LoloLake == <<"L","o","l","o",",","L","a","k","e">>
L_Spaced == <<" ","D","a","r","b","y"," ",","," ","m","i","s","s","o","u","l","a",","," ","0","9"," ">>
L_NoCounty == <<"v","i","c","t","o","r",",",",","1","3">>
L_NoPrefix == <<"p","o","l","s","o","n",",","L","a","k","e",",">>
L_OneField == <<"z","z">>
NL == <<"\n">>

\* NewCities.txt: the characters of the file
UserFiles ==
    { <<>>,
      L_Darby \o NL,
      L_LoloLake \o NL \o L_Darby \o NL,
      L_Darby \o NL \o NL \o <<" ">> \o NL \o L_Spaced \o NL,
      L_LoloLake,
      L_NoCounty \o NL,
      L_NoPrefix \o NL,
      L_Darby \o NL \o L_OneField \o NL \o L_LoloLake \o NL }

\* lines typed at "Ready to play? (y/n): "
ReadyInputs == { <<"Y">>, <<"n">>, <<>>, <<"y"," ">> }

\* lines typed at "Please enter a city name (or 'x' to exit): "
CityInputs ==
    { <<"x">>, <<" ","X"," ">>, <<>>, <<"l","0","l","o">>,
      <<"L","O","L","O"," ">>, <<"l","o","l">>, <<"L","o","l">>,
      <<"d","a","r","b","y">>,
      <<"b","i","g"," ","s","k","y">> }

\* lines typed at the two y/n prompts of unknown_city
YesNoInputs == { <<"Y">>, <<"n">>, <<"N">>, <<" ","y">> }

\* lines typed at "Enter the County name for ...: "
CountyInputs ==
    { <<>>, <<"H","i","l","l"," ","2">>, <<" ","m","i","s","s","o","u","l","a"," ">>,
      <<"l","a","k","e">> }

NoFlow == [cities |-> <<>>, file |-> <<>>]

Init ==
    /\ csv_rows \in RefFiles
    /\ file_exists \in BOOLEAN
    /\ file \in (IF file_exists THEN UserFiles ELSE {<<>>})
    /\ cities = <<>>
    /\ pc = "start"
    /\ city_name = <<>>
    /\ county_name = <<>>
    /\ prefix_to_use = StrPrefix(<<>>)
    /\ last_input = <<>>
    /\ out = NoMessage
    /\ error = ""
    /\ flow_start = NoFlow
    /\ adds = 0
    /\ added = <<>>

-----------------------------------------------------------------------------
(* main and unknown_city                                                    *)

\* main, line 197
LoadInitial ==
    /\ pc = "start"
    /\ LET r == load_initial_cities(csv_rows)
       IN  /\ cities' = r.cities
           /\ pc' = IF r.ok THEN "load_user" ELSE "crashed"
           /\ error' = r.error
    /\ UNCHANGED <<csv_rows, file_exists, file, city_name, county_name,
                   prefix_to_use, last_input, out, flow_start, adds, added>>

\* main, lines 198-204: the merge, the greeting, up to the first input()
LoadUser ==
    /\ pc = "load_user"
    /\ LET r == load_user_cities(file_exists, file, cities)
       IN  /\ cities' = r.cities
           /\ pc' = IF r.ok THEN "ready" ELSE "crashed"
           /\ error' = r.error
           /\ out' = IF r.ok THEN Message("greeting", <<>>, <<>>, <<>>) ELSE out
    /\ UNCHANGED <<csv_rows, file_exists, file, city_name, county_name,
                   prefix_to_use, last_input, flow_start, adds, added>>

\* main, lines 204-207
Ready ==
    /\ pc = "ready"
    /\ \E inp \in ReadyInputs :
          /\ last_input' = inp
          /\ IF Lower(inp) # <<"y">>
             THEN pc' = "done" /\ out' = Message("goodbye", <<>>, <<>>, <<>>)
             ELSE pc' = "ask_city" /\ out' = out
    /\ UNCHANGED <<csv_rows, file_exists, file, cities, city_name, county_name,
                   prefix_to_use, error, flow_start, adds, added>>

\* an exit test that compares the name as typed
is_exit_case_sensitive(name) == name = <<"x">>

\* main, line 212: the exit sentinel
is_exit(name) == Lower(name) = <<"x">>

\* a turn whose lookup leaves a placeholder entry behind on a miss
AskCity_lookup_inserts ==
    /\ pc = "ask_city"
    /\ \E inp \in CityInputs :
          LET name == Strip(inp)
          IN  /\ last_input' = inp
              /\ city_name' = name
              /\ IF is_exit(name)
                 THEN /\ pc' = "done"
                      /\ out' = Message("farewell", <<>>, <<>>, <<>>)
                      /\ UNCHANGED <<flow_start, cities>>
                 ELSE IF ~validate_name(name)
                 THEN /\ pc' = "ask_city"
                      /\ out' = Message(validate_message(name), <<>>, <<>>, <<>>)
                      /\ UNCHANGED <<flow_start, cities>>
                 ELSE IF lookup_city(name, cities)
                 THEN /\ pc' = "ask_city"
                      /\ out' = lookup_message(name, cities)
                      /\ UNCHANGED <<flow_start, cities>>
                 ELSE /\ adds < MaxAdds
                      /\ pc' = "want_add"
                      /\ out' = out
                      /\ cities' = DictSet(cities, Lower(name), Unknown, StrPrefix(Unknown))
                      /\ flow_start' = [cities |-> cities, file |-> file]
    /\ UNCHANGED <<csv_rows, file_exists, file, county_name,
                   prefix_to_use, error, adds, added>>

\* main, lines 211-219: one turn of the loop, up to the next input()
AskCity ==
    /\ pc = "ask_city"
    /\ \E inp \in CityInputs :
          LET name == Strip(inp)
          IN  /\ last_input' = inp
              /\ city_name' = name
              /\ IF is_exit(name)
                 THEN /\ pc' = "done"
                      /\ out' = Message("farewell", <<>>, <<>>, <<>>)
                      /\ flow_start' = flow_start
                 ELSE IF ~validate_name(name)
                 THEN /\ pc' = "ask_city"
                      /\ out' = Message(validate_message(name), <<>>, <<>>, <<>>)
                      /\ flow_start' = flow_start
                 ELSE IF lookup_city(name, cities)
                 THEN /\ pc' = "ask_city"
                      /\ out' = lookup_message(name, cities)
                      /\ flow_start' = flow_start
                 ELSE /\ adds < MaxAdds
                      /\ pc' = "want_add"
                      /\ out' = out
                      /\ flow_start' = [cities |-> cities, file |-> file]
    /\ UNCHANGED <<csv_rows, file_exists, file, cities, county_name,
                   prefix_to_use, error, adds, added>>

\* a want-add prompt that trims the response before comparing it
WantAdd_strips_input ==
    /\ pc = "want_add"
    /\ \E inp \in YesNoInputs :
          LET user_input == Lower(Strip(inp))
          IN  /\ last_input' = inp
              /\ IF user_input \notin {<<"y">>, <<"n">>}
                 THEN /\ pc' = "want_add"
                      /\ out' = Message("type_y_or_n", <<>>, <<>>, <<>>)
                      /\ flow_start' = flow_start
                 ELSE IF user_input = <<"n">>
                 THEN /\ pc' = "ask_city"
                      /\ out' = out
                      /\ flow_start' = NoFlow
                 ELSE /\ pc' = "ask_county"
                      /\ out' = out
                      /\ flow_start' = flow_start
    /\ UNCHANGED <<csv_rows, file_exists, file, cities, city_name, county_name,
                   prefix_to_use, error, adds, added>>

\* unknown_city, lines 143-150
WantAdd ==
    /\ pc = "want_add"
    /\ \E inp \in YesNoInputs :
          LET user_input == Lower(inp)
          IN  /\ last_input' = inp
              /\ IF user_input \notin {<<"y">>, <<"n">>}
                 THEN /\ pc' = "want_add"
                      /\ out' = Message("type_y_or_n", <<>>, <<>>, <<>>)
                      /\ flow_start' = flow_start
                 ELSE IF user_input = <<"n">>
                 THEN /\ pc' = "ask_city"
                      /\ out' = out
                      /\ flow_start' = NoFlow
                 ELSE /\ pc' = "ask_county"
                      /\ out' = out
                      /\ flow_start' = flow_start
    /\ UNCHANGED <<csv_rows, file_exists, file, cities, city_name, county_name,
                   prefix_to_use, error, adds, added>>

\* a county prompt that stores the entry before the confirmation
AskCounty_stores_early ==
    /\ pc = "ask_county"
    /\ \E inp \in CountyInputs :
          LET name == Title(Strip(inp))
          IN  /\ last_input' = inp
              /\ county_name' = name
              /\ IF ~validate_name(name)
                 THEN /\ pc' = "want_add"
                      /\ out' = Message(validate_message(name), <<>>, <<>>, <<>>)
                      /\ prefix_to_use' = prefix_to_use
                      /\ cities' = cities
                 ELSE /\ pc' = "confirm"
                      /\ out' = Message("confirm_entry", Title(city_name), name, <<>>)
                      /\ prefix_to_use' = determine_prefix(cities, name)
                      /\ cities' = DictSet(cities, Lower(city_name), name,
                                           determine_prefix(cities, name))
    /\ UNCHANGED <<csv_rows, file_exists, file, city_name, error, flow_start, adds, added>>

\* unknown_city, lines 151-168: the county prompt, validation, the prefix,
\* the confirmation header, up to the next input()
AskCounty ==
    /\ pc = "ask_county"
    /\ \E inp \in CountyInputs :
          LET name == Title(Strip(inp))
          IN  /\ last_input' = inp
              /\ county_name' = name
              /\ IF ~validate_name(name)
                 THEN /\ pc' = "want_add"
                      /\ out' = Message(validate_message(name), <<>>, <<>>, <<>>)
                      /\ prefix_to_use' = prefix_to_use
                 ELSE /\ pc' = "confirm"
                      /\ out' = Message("confirm_entry", Title(city_name), name, <<>>)
                      /\ prefix_to_use' = determine_prefix(cities, name)
    /\ UNCHANGED <<csv_rows, file_exists, file, cities, city_name, error,
                   flow_start, adds, added>>

\* a commit that stores the entry under the name as typed
Confirm_keeps_case ==
    /\ pc = "confirm"
    /\ \E inp \in YesNoInputs :
          LET confirm == Lower(inp)
              key == city_name
          IN  /\ last_input' = inp
              /\ IF confirm \notin {<<"y">>, <<"n">>}
                 THEN /\ pc' = "confirm"
                      /\ out' = Message("confirm_entry", Title(city_name), county_name, <<>>)
                      /\ UNCHANGED <<cities, file, file_exists, error, flow_start, adds, added>>
                 ELSE IF confirm = <<"n">>
                 THEN /\ pc' = "want_add"
                      /\ out' = Message("try_again", <<>>, <<>>, <<>>)
                      /\ UNCHANGED <<cities, file, file_exists, error, flow_start, adds, added>>
                 ELSE /\ cities' = DictSet(cities, key, county_name, prefix_to_use)
                      /\ adds' = adds + 1
                      /\ added' = Append(added, [city |-> city_name, county |-> county_name,
                                                 prefix |-> prefix_to_use])
                      /\ flow_start' = NoFlow
                      /\ \E written \in 0..Len(SavedLine(key, county_name, prefix_to_use)) :
                            IF written = Len(SavedLine(key, county_name, prefix_to_use))
                            THEN /\ file' = save_new_city(file, key, county_name, prefix_to_use)
                                 /\ file_exists' = TRUE
                                 /\ out' = Message("added", Title(city_name), county_name,
                                                   FormatPrefix(prefix_to_use))
                                 /\ pc' = "ask_city"
                                 /\ error' = error
                            ELSE /\ file' = save_new_city_fails(file, key, county_name,
                                                                prefix_to_use, written)
                                 /\ file_exists' \in (IF written > 0 THEN {TRUE}
                                                       ELSE {file_exists, TRUE})
                                 /\ pc' = "crashed"
                                 /\ error' = "OSError"
                                 /\ out' = out
    /\ UNCHANGED <<csv_rows, city_name, county_name, prefix_to_use>>

\* unknown_city, lines 164-182: an unrecognised answer prints the refusal and
\* then the confirmation header again; on "y" the directory is updated and
\* then the line is saved, and a save that fails ends the program with what
\* had already reached the file
Confirm ==
    /\ pc = "confirm"
    /\ \E inp \in YesNoInputs :
          LET confirm == Lower(inp)
              key == Lower(city_name)
          IN  /\ last_input' = inp
              /\ IF confirm \notin {<<"y">>, <<"n">>}
                 THEN /\ pc' = "confirm"
                      /\ out' = Message("confirm_entry", Title(city_name), county_name, <<>>)
                      /\ UNCHANGED <<cities, file, file_exists, error, flow_start, adds, added>>
                 ELSE IF confirm = <<"n">>
                 THEN /\ pc' = "want_add"
                      /\ out' = Message("try_again", <<>>, <<>>, <<>>)
                      /\ UNCHANGED <<cities, file, file_exists, error, flow_start, adds, added>>
                 ELSE /\ cities' = DictSet(cities, key, county_name, prefix_to_use)
                      /\ adds' = adds + 1
                      /\ added' = Append(added, [city |-> city_name, county |-> county_name,
                                                 prefix |-> prefix_to_use])
                      /\ flow_start' = NoFlow
                      /\ \E written \in 0..Len(SavedLine(key, county_name, prefix_to_use)) :
                            IF written = Len(SavedLine(key, county_name, prefix_to_use))
                            THEN /\ file' = save_new_city(file, key, county_name, prefix_to_use)
                                 /\ file_exists' = TRUE
                                 /\ out' = Message("added", Title(city_name), county_name,
                                                   FormatPrefix(prefix_to_use))
                                 /\ pc' = "ask_city"
                                 /\ error' = error
                            ELSE /\ file' = save_new_city_fails(file, key, county_name,
                                                                prefix_to_use, written)
                                 /\ file_exists' \in (IF written > 0 THEN {TRUE}
                                                       ELSE {file_exists, TRUE})
                                 /\ pc' = "crashed"
                                 /\ error' = "OSError"
                                 /\ out' = out
    /\ UNCHANGED <<csv_rows, city_name, county_name, prefix_to_use>>

\* an end of input that is caught inside the loop, which then goes on
EndOfInput_keeps_prompting ==
    /\ pc \in {"ready", "ask_city", "want_add", "ask_county", "confirm"}
    /\ pc' = pc
    /\ error' = "EOFError"
    /\ UNCHANGED <<csv_rows, file_exists, file, cities, city_name, county_name,
                   prefix_to_use, last_input, out, flow_start, adds, added>>

\* input() at end of input raises EOFError, which nothing catches
EndOfInput ==
    /\ pc \in {"ready", "ask_city", "want_add", "ask_county", "confirm"}
    /\ pc' = "crashed"
    /\ error' = "EOFError"
    /\ UNCHANGED <<csv_rows, file_exists, file, cities, city_name, county_name,
                   prefix_to_use, last_input, out, flow_start, adds, added>>

Next ==
    \/ LoadInitial
    \/ LoadUser
    \/ Ready
    \/ AskCity
    \/ WantAdd
    \/ AskCounty
    \/ Confirm
    \/ EndOfInput

Spec == Init /\ [][Next]_vars

\* the user answers "n" at the want-add prompt
Decline == WantAdd /\ pc' = "ask_city"

\* the user answers "y" or "n" at the confirmation prompt
ConfirmAnswered == Confirm /\ pc' # "confirm"

\* a session whose user answers the county prompt, eventually answers the
\* confirmation with "y" or "n", and eventually answers "n" at the want-add
\* prompt if it keeps being asked
SpecLive ==
    Spec /\ WF_vars(AskCounty) /\ SF_vars(ConfirmAnswered) /\ SF_vars(Decline)

-----------------------------------------------------------------------------
(* Startup on its own, for every user-store file of at most MaxLines lines  *)

\* lines of a generated user-store file
MaxLines == 2

\* two records separated by a lone carriage return, with form feeds around fields
L_OldMac == <<"h","i",",","H","i","l","l","\r","\f","L","o","l","o",",","\f","L","a","k","e",",","7">>

\* a record whose line ends in a carriage return before the newline
L_Dos == <<"d","a","r","b","y",",","L","a","k","e",",","8","\r">>

LineChoices ==
    {L_Darby, L_LoloLake, L_Spaced, L_NoCounty, L_NoPrefix, L_OneField, <<" ">>,
     L_OldMac, L_Dos}

\* files whose last line ends in a newline
RECURSIVE TerminatedFiles(_)
TerminatedFiles(n) ==
    IF n = 0 THEN {<<>>}
    ELSE LET shorter == TerminatedFiles(n - 1)
         IN  shorter \cup {f \o l \o NL : f \in shorter, l \in LineChoices}

\* the same, and files whose last line does not end in a newline
LoadFiles ==
    TerminatedFiles(MaxLines)
        \cup {f \o l : f \in TerminatedFiles(MaxLines - 1), l \in LineChoices}

InitLoad ==
    /\ csv_rows \in RefFiles
    /\ file_exists = TRUE
    /\ file \in LoadFiles
    /\ cities = <<>>
    /\ pc = "start"
    /\ city_name = <<>>
    /\ county_name = <<>>
    /\ prefix_to_use = StrPrefix(<<>>)
    /\ last_input = <<>>
    /\ out = NoMessage
    /\ error = ""
    /\ flow_start = NoFlow
    /\ adds = 0
    /\ added = <<>>

NextLoad ==
    \/ LoadInitial
    \/ LoadUser
    \/ Ready

SpecLoad == InitLoad /\ [][NextLoad]_vars

-----------------------------------------------------------------------------
(* validate_name on its own, for every short string over NameChars          *)

\* longest name handed to validate_name
MaxNameLen == 3

NameChars == {"a", "B", " ", "1", "-"}

RECURSIVE NamesUpTo(_)
NamesUpTo(n) ==
    IF n = 0 THEN {<<>>}
    ELSE LET shorter == NamesUpTo(n - 1)
         IN  shorter \cup {Append(x, c) : x \in shorter, c \in NameChars}

InitValidate ==
    /\ csv_rows = <<>>
    /\ file_exists = TRUE
    /\ file = <<>>
    /\ cities = <<>>
    /\ pc = "validate"
    /\ city_name \in NamesUpTo(MaxNameLen)
    /\ county_name = <<>>
    /\ prefix_to_use = StrPrefix(<<>>)
    /\ last_input = <<>>
    /\ out = NoMessage
    /\ error = ""
    /\ flow_start = NoFlow
    /\ adds = 0
    /\ added = <<>>

\* one call validate_name(city_name)
Validate ==
    /\ pc = "validate"
    /\ pc' = IF validate_name(city_name) THEN "valid" ELSE "invalid"
    /\ out' = Message(validate_message(city_name), <<>>, <<>>, <<>>)
    /\ UNCHANGED <<csv_rows, file_exists, file, cities, city_name, county_name,
                   prefix_to_use, last_input, error, flow_start, adds, added>>

NextValidate == Validate

SpecValidate == InitValidate /\ [][NextValidate]_vars

-----------------------------------------------------------------------------
(* Properties                                                               *)

\* C1: when unknown_city commits a new city with entered county C, the
\* committed prefix is the prefix of the first directory entry (in scan order)
\* whose county equals C ignoring case, and the sentinel "unknown" when no
\* entry has such a county.
C1_InheritedPrefix ==
    [][ (pc = "confirm" /\ cities' # cities) =>
          LET m == {i \in 1..Len(cities) : Lower(cities[i].county) = Lower(county_name)}
              committed == DictGet(cities', Lower(city_name))
          IN  /\ committed.county = county_name
              /\ IF m # {}
                 THEN committed.prefix = cities[CHOOSE i \in m : \A j \in m : i <= j].prefix
                 ELSE committed.prefix = StrPrefix(Unknown) ]_vars

\* a city was added whose county matches two entries with different prefixes,
\* and it took the prefix of the first
C1_Witness ==
    /\ out.kind = "added"
    /\ out.prefix = <<"4">>
    /\ \E i, j \in 1..Len(cities) :
          /\ i < j
          /\ cities[i].prefix = IntPrefix(PyInt(FALSE, <<4>>))
          /\ cities[j].prefix = IntPrefix(PyInt(FALSE, <<7>>))
          /\ Lower(cities[i].county) = Lower(out.county)
          /\ Lower(cities[j].county) = Lower(out.county)

\* C2: when the user ends the entry flow with "n" at the want-add prompt, the
\* directory and the user-store file are what they were when the flow started.
C2_DeclineChangesNothing ==
    [][ (pc = "want_add" /\ pc' = "ask_city") =>
          /\ Lower(last_input') = <<"n">>
          /\ cities' = flow_start.cities
          /\ file' = flow_start.file
          /\ file_exists' = file_exists ]_vars

\* the flow was left with "n" after a rejected confirmation
C2_Witness ==
    /\ pc = "ask_city"
    /\ Lower(last_input) = <<"n">>
    /\ out.kind = "try_again"
    /\ ~DictHas(cities, Lower(city_name))

\* C3: after a confirmed addition, rebuilding the directory from the
\* reference file and the user-store file gives the added city the same
\* (county, prefix) pair that is stored in memory.
C3_RoundTrip ==
    out.kind = "added" =>
        LET key == Lower(out.city)
            base == load_initial_cities(csv_rows)
            re == load_user_cities(file_exists, file, base.cities)
        IN  /\ base.ok /\ re.ok
            /\ DictHas(re.cities, key)
            /\ DictGet(re.cities, key) = DictGet(cities, key)

\* C4: a lookup is a hit exactly when the lowercased name is a directory key,
\* and a hit reports the county and the prefix stored under that key.
C4_LookupExact ==
    [][ LET name == city_name'
            letters == /\ name # <<>>
                       /\ \A i \in 1..Len(name) : IsAlphaChar(name[i]) \/ name[i] = " "
                       /\ \E i \in 1..Len(name) : name[i] # " "
            hits == {i \in 1..Len(cities) :
                        /\ Len(cities[i].key) = Len(name)
                        /\ \A j \in 1..Len(name) : cities[i].key[j] = LowerChar(name[j])}
        IN  (pc = "ask_city" /\ error' = "" /\ pc' # "done" /\ letters) =>
               IF hits # {}
               THEN /\ pc' = "ask_city"
                    /\ out'.kind = "hit"
                    /\ \A i \in hits :
                          /\ out'.county = cities[i].county
                          /\ out'.prefix = FormatPrefix(cities[i].prefix)
               ELSE /\ pc' = "want_add"
                    /\ out' = out ]_vars

\* a name that is a proper prefix of a key missed, right after that key was
\* found by a name typed in another case
C4_Witness ==
    /\ pc = "want_add"
    /\ city_name = <<"l","o","l">>
    /\ out.kind = "hit"
    /\ out.city = S_Lolo
    /\ DictHas(cities, Lower(S_Lolo))

\* C5: once the user has answered "y" at the want-add prompt, an invalid
\* county name and an "n" at the confirmation prompt both lead back to the
\* county prompt; the want-add question is not asked again.
C5_BackToCountyPrompt ==
    [][ /\ (pc = "ask_county" /\ error' = "" /\ ~validate_name(county_name'))
            => pc' = "ask_county"
        /\ (pc = "confirm" /\ error' = "" /\ Lower(last_input') = <<"n">>)
            => pc' = "ask_county" ]_vars

\* C6: validate_name reports invalid exactly when the string is empty or the
\* string with spaces removed contains a non-alphabetic character, and valid
\* for every other string.
C6_InvalidExactly ==
    pc \in {"valid", "invalid"} =>
        LET bare == RemoveSpaces(city_name)
        IN  (pc = "invalid") <=>
               \/ city_name = <<>>
               \/ \E i \in 1..Len(bare) : ~IsAlphaChar(bare[i])

\* C6 as amended: validate_name reports invalid exactly when the string is
\* empty, consists only of spaces, or contains a character that is neither a
\* letter nor a space; it reports valid for every other string.
C6_InvalidExactly_Amended ==
    pc \in {"valid", "invalid"} =>
        (pc = "invalid") <=>
           \/ \A i \in 1..Len(city_name) : city_name[i] = " "
           \/ \E i \in 1..Len(city_name) :
                 city_name[i] # " " /\ ~IsAlphaChar(city_name[i])

\* a string of spaces only was reported invalid
C6_Witness ==
    /\ pc = "invalid"
    /\ city_name = <<" ", " ">>
    /\ out.kind = "letters_only"

\* C7: "x" or "X" (after trimming) at the city prompt ends the loop: the
\* farewell is printed, the directory and the user-store file are unchanged,
\* and nothing runs after the program has ended.
C7_ExitEndsLoop ==
    [][ /\ pc # "done"
        /\ (pc = "ask_city" /\ error' = "" /\ Lower(Strip(last_input')) = <<"x">>) =>
              /\ pc' = "done"
              /\ out'.kind = "farewell"
              /\ cities' = cities
              /\ file' = file
              /\ file_exists' = file_exists ]_vars

\* the session was ended by " X " after an entry had been added
C7_Witness ==
    /\ pc = "done"
    /\ out.kind = "farewell"
    /\ last_input = <<" ", "X", " ">>
    /\ adds > 0

\* C8: every key of the directory is lowercase-normalized.
C8_KeysLowercase ==
    \A i \in 1..Len(cities) :
        \A j \in 1..Len(cities[i].key) : ~IsUpperChar(cities[i].key[j])

\* the directory holds a key from the reference file, a key from the user
\* store (both written with capitals there) and a key added in the session
C8_Witness ==
    /\ out.kind = "added"
    /\ DictHas(cities, Lower(Strip(S_Butte)))
    /\ DictHas(cities, Lower(S_Lolo))
    /\ DictGet(cities, Lower(S_Lolo)).county = <<"L","a","k","e">>
    /\ DictHas(cities, Lower(out.city))

\* C9: when every non-empty line of the user-store file has 2 or 3 fields,
\* every directory value has a non-empty county and a prefix that is not the
\* empty string.
C9_NonEmptyValues ==
    LET lines == FileLines(file)
    IN  (\A k \in 1..Len(lines) :
            Strip(lines[k]) # <<>> => Len(Split(Strip(lines[k]), ",")) \in {2, 3})
        => \A i \in 1..Len(cities) :
              /\ cities[i].county # <<>>
              /\ cities[i].prefix # StrPrefix(<<>>)

\* C10: when the user-store file does not exist at startup, load_user_cities
\* raises nothing, leaves the directory as the reference loader built it, and
\* the session goes on to the greeting and the first prompt.
C10_MissingStoreIsEmpty ==
    [][ (pc = "load_user" /\ ~file_exists) =>
          /\ pc' = "ready"
          /\ error' = ""
          /\ cities' = cities
          /\ out'.kind = "greeting" ]_vars

\* C11: at commit the directory is updated under the lowercased city key
\* before the write is attempted: when save_new_city fails, the directory
\* holds the new (county, prefix) entry and the user-store file has no new line.
C11_MemoryKeptOnFailedWrite ==
    [][ (pc = "confirm" /\ error' = "OSError") =>
          /\ DictHas(cities', Lower(city_name))
          /\ DictGet(cities', Lower(city_name)).county = county_name
          /\ DictGet(cities', Lower(city_name)).prefix = prefix_to_use
          /\ ~DictHas(cities, Lower(city_name))
          /\ file' = file
          /\ file_exists' = file_exists ]_vars

\* C12: once both loaders have succeeded, a line typed at a prompt never ends
\* the session with an error: the session stays at a prompt, or ends by a
\* non-"y" answer at the ready prompt or by the exit sentinel at the city
\* prompt; a failed persistence write leaves it running too.
C12_OnlyUserEndsSession ==
    [][ (pc \in {"ready", "ask_city", "want_add", "ask_county", "confirm"}
         /\ error' # "EOFError") =>
          \/ pc' \in {"ask_city", "want_add", "ask_county", "confirm"} /\ error' = ""
          \/ /\ pc' = "done" /\ error' = ""
             /\ \/ pc = "ready" /\ Lower(last_input') # <<"y">>
                \/ pc = "ask_city" /\ Lower(Strip(last_input')) = <<"x">> ]_vars

\* C13: lookup_city is read-only and idempotent: a lookup changes neither the
\* directory nor the user-store file, and looking the same name up again
\* against the same directory gives the same result and the same message.
C13_LookupReadOnly ==
    [][ (pc = "ask_city" /\ error' = "" /\ pc' # "done") =>
          /\ cities' = cities
          /\ file' = file
          /\ file_exists' = file_exists
          /\ (out.kind = "hit" /\ out.city = Title(city_name) /\ city_name' = city_name)
                => (pc' = "ask_city" /\ out' = out)
          /\ (Lower(last_input) = <<"n">> /\ city_name' = city_name)
                => (pc' = "want_add" /\ out' = out) ]_vars

\* a name was found and its message printed, with an entry already added
C13_Witness ==
    /\ pc = "ask_city"
    /\ out.kind = "hit"
    /\ out.city = Title(city_name)
    /\ last_input = <<"L","O","L","O"," ">>
    /\ adds > 0

\* C14: the user-store file is an append-only log: a step either leaves it as
\* it is or is a completed addition that appends exactly the one line
\* "city,county,prefix\n" with the lowercased city key and the county and
\* prefix just stored in memory; every completed addition appends that line.
C14_AppendOnlyLog ==
    [][ LET key == Lower(city_name)
            e == DictGet(cities', key)
            line == key \o <<",">> \o e.county \o <<",">> \o FormatPrefix(e.prefix)
                        \o <<"\n">>
            appended == /\ DictHas(cities', key)
                        /\ ~DictHas(cities, key)
                        /\ file' = file \o line
                        /\ \A i \in 1..(Len(line) - 1) : line[i] # "\n"
        IN  /\ (file' # file) =>
                  (pc = "confirm" /\ Lower(last_input') = <<"y">> /\ appended)
            /\ (pc = "confirm" /\ Lower(last_input') = <<"y">> /\ error' = "") => appended
            /\ file_exists => file_exists' ]_vars

\* C16: at the want-add prompt and at the confirmation prompt any response
\* other than "y" or "n" (in either case) asks the same question again and
\* leaves the directory, the file, the pending county and the pending prefix
\* unchanged.
C16_InvalidAnswerReprompts ==
    [][ (pc \in {"want_add", "confirm"} /\ error' = ""
         /\ last_input' \notin {<<"y">>, <<"Y">>, <<"n">>, <<"N">>}) =>
          /\ pc' = pc
          /\ (pc = "want_add") => out' = Message("type_y_or_n", <<>>, <<>>, <<>>)
          /\ (pc = "confirm") =>
                out' = Message("confirm_entry", Title(city_name), county_name, <<>>)
          /\ cities' = cities
          /\ file' = file
          /\ county_name' = county_name
          /\ prefix_to_use' = prefix_to_use ]_vars

\* " y" at the confirmation prompt was refused while the prefix 4 was pending
C16_Witness ==
    /\ pc = "confirm"
    /\ out.kind = "confirm_entry"
    /\ last_input = <<" ", "y">>
    /\ prefix_to_use = IntPrefix(PyInt(FALSE, <<4>>))

\* C15: load_user_cities merges the user store over the reference data: every
\* city key of the file gets the county and prefix of the last line for that
\* key ("unknown" when that line has only 2 fields), and every other key
\* keeps the value it had before the merge.
C15_LastLineWins ==
    [][ (pc = "load_user" /\ pc' = "ready") =>
          LET raw == FileLines(file)
              lines == SelectSeq([i \in 1..Len(raw) |-> Strip(raw[i])],
                                 LAMBDA l : l # <<>>)
              KeyOf(l) == Lower(Strip(Split(l, ",")[1]))
              fileKeys == {KeyOf(lines[i]) : i \in 1..Len(lines)}
          IN  /\ \A k \in fileKeys :
                    LET ix == {i \in 1..Len(lines) : KeyOf(lines[i]) = k}
                        last == CHOOSE i \in ix : \A j \in ix : j <= i
                        parts == Split(lines[last], ",")
                    IN  /\ DictHas(cities', k)
                        /\ DictGet(cities', k).county = Strip(parts[2])
                        /\ DictGet(cities', k).prefix =
                              StrPrefix(IF Len(parts) = 2 THEN Unknown ELSE Strip(parts[3]))
              /\ \A i \in 1..Len(cities) :
                    cities[i].key \notin fileKeys =>
                       /\ DictHas(cities', cities[i].key)
                       /\ DictGet(cities', cities[i].key) = cities[i]
              /\ \A j \in 1..Len(cities') :
                    \/ cities'[j].key \in fileKeys
                    \/ DictHas(cities, cities'[j].key) ]_vars

\* the user store replaced the reference entry of lolo by a 2-field line and
\* left the reference entry of butte alone
C15_Witness ==
    /\ pc = "ready"
    /\ DictHas(load_initial_cities(csv_rows).cities, Lower(S_Lolo))
    /\ DictGet(cities, Lower(S_Lolo)).county = <<"L","a","k","e">>
    /\ DictGet(cities, Lower(S_Lolo)).prefix = StrPrefix(Unknown)
    /\ DictHas(cities, Lower(Strip(S_Butte)))
    /\ DictGet(cities, Lower(Strip(S_Butte))).prefix = IntPrefix(PyInt(FALSE, <<1>>))

\* C17: a non-empty user-store line with fewer than 2 fields makes
\* load_user_cities raise: the lines before it are merged, nothing is merged
\* from it or after it, and the program ends before any prompt.
C17_MalformedLineFailsFast ==
    [][ /\ pc # "crashed"
        /\ LET raw == FileLines(file)
               bad == {i \in 1..Len(raw) :
                          Strip(raw[i]) # <<>> /\ Len(Split(Strip(raw[i]), ",")) < 2}
           IN  (pc = "load_user" /\ file_exists /\ bad # {}) =>
                  LET first == CHOOSE i \in bad : \A j \in bad : i <= j
                      before == LoadLines(SubSeq(raw, 1, first - 1), 1, cities)
                  IN  /\ pc' = "crashed"
                      /\ error' = "IndexError"
                      /\ out' = out
                      /\ before.ok
                      /\ cities' = before.cities
                      /\ DictHas(cities', Lower(Strip(raw[first])))
                            => DictHas(before.cities, Lower(Strip(raw[first]))) ]_vars

\* startup ended on a one-field line after the line before it was merged
C17_Witness ==
    /\ pc = "crashed"
    /\ error = "IndexError"
    /\ out = NoMessage
    /\ DictHas(cities, <<"d","a","r","b","y">>)
    /\ ~DictHas(load_initial_cities(csv_rows).cities, <<"d","a","r","b","y">>)
    /\ ~DictHas(cities, L_OneField)

\* C18: the entry flow ends when input ends: end of input at the want-add,
\* county or confirmation prompt stops the program without committing
\* anything, and nothing runs afterwards; with a user who keeps answering and
\* eventually answers "n" at the want-add prompt, the flow is always left.
C18_FlowTerminates ==
    /\ [][ /\ pc # "crashed"
           /\ (pc \in {"want_add", "ask_county", "confirm"} /\ error' = "EOFError") =>
                 /\ pc' = "crashed"
                 /\ cities' = cities
                 /\ file' = file
                 /\ added' = added ]_vars
    /\ (pc \in {"want_add", "ask_county", "confirm"})
          ~> (pc \notin {"want_add", "ask_county", "confirm"})

\* input ended at the confirmation prompt, with an entry pending and none stored
C18_Witness ==
    /\ pc = "crashed"
    /\ error = "EOFError"
    /\ out.kind = "confirm_entry"
    /\ flow_start.cities = cities
    /\ cities # <<>>
    /\ ~DictHas(cities, Lower(city_name))

\* C19: once the directory is built, it only grows and existing entries never
\* change: the entry flow is entered only for a validated name whose
\* lowercased form is not a key, the directory changes only by a confirmed
\* commit, which adds one entry under that lowercased key after the existing
\* ones, and so no key is removed and no (county, prefix) value is overwritten.
C19_DirectoryOnlyGrows ==
    [][ (pc \notin {"start", "load_user"}) =>
          /\ Len(cities') >= Len(cities)
          /\ \A i \in 1..Len(cities) : cities'[i] = cities[i]
          /\ (pc = "ask_city" /\ pc' = "want_add") =>
                /\ validate_name(city_name')
                /\ ~DictHas(cities, Lower(city_name'))
          /\ (pc \in {"want_add", "ask_county", "confirm"}) =>
                ~DictHas(cities, Lower(city_name))
          /\ (cities' # cities) =>
                /\ pc = "confirm"
                /\ Lower(last_input') = <<"y">>
                /\ cities' = Append(cities, Entry(Lower(city_name), county_name,
                                                  prefix_to_use)) ]_vars

\* two entries were added in one session to a directory that had entries,
\* the second for a name typed in capitals
C19_Witness ==
    /\ out.kind = "added"
    /\ adds = 2
    /\ Len(cities) > 2
    /\ city_name = <<"L","O","L","O">>
    /\ cities[Len(cities)].key = <<"l","o","l","o">>

\* C20: after a confirmed addition of a city, every later lookup of that name
\* in the session, in any letter case, is a hit that reports the title-cased
\* county entered for it and the prefix determined for it, and the entry flow
\* does not start for it again.
C20_AddedCityIsFound ==
    [][ \A i \in 1..Len(added) :
          (/\ pc = "ask_city"
           /\ error' = ""
           /\ Lower(city_name') = Lower(added[i].city)) =>
             /\ pc' = "ask_city"
             /\ out' = Message("hit", Title(city_name'), added[i].county,
                               FormatPrefix(added[i].prefix))
             /\ added[i].county = Title(added[i].county)
             /\ cities' = cities
             /\ file' = file ]_vars

\* a city added as "lol" was looked up as "Lol" and found
C20_Witness ==
    /\ pc = "ask_city"
    /\ out.kind = "hit"
    /\ city_name = <<"L","o","l">>
    /\ \E i \in 1..Len(added) :
          /\ added[i].city = <<"l","o","l">>
          /\ out.county = added[i].county
          /\ out.prefix = FormatPrefix(added[i].prefix)

====
